---- MODULE Spec2Model ----
(***************************************************************************)
(* A model of the Stylus / polyglot WebAssembly instrumentation:           *)
(*   - the DepthChecker middleware (polyglot/src/depth.rs): the frame-size *)
(*     walk, the per-function rewriter and the host operations on the      *)
(*     stack globals;                                                      *)
(*   - the metered machine (stylus/src/native.rs) on top of the Meter      *)
(*     prelude described in the specification (section 4.4);               *)
(*   - the two call entry points (stylus/src/lib.rs stylus_call and        *)
(*     user-host/src/link.rs callUserWasmRustImpl) with the pricing        *)
(*     conversions of prover/src/programs/config.rs.                       *)
(* Instrumented functions are executed by a small WebAssembly control-flow *)
(* interpreter: the operators the middleware inserts are evaluated on a    *)
(* value stack; the operators of the user program are followed for their   *)
(* control flow, with conditions chosen nondeterministically.              *)
(***************************************************************************)
EXTENDS Integers, Sequences, FiniteSets, TLC

VARIABLES
    modidx,            \* which module of Modules was handed to the compiler
    costs,             \* config.costs: the per-operator cost function in force
    stack_left,        \* global "stack_space_left" (u32)
    stack_size_limit,  \* global "stack_size_limit" (u32)
    gas_left,          \* global "gas_left" (u64)
    gas_status,        \* global "gas_status" (u32, 0 = running)
    frames,            \* the call stack of the running program
    run,               \* idle | running | returned | trap_depth | trap_gas | trap_other
    entered,           \* function bodies entered since the current call began
    call0,             \* the globals as they were when the current call began
    obs,               \* the last instrumentation or host event observed
    env,               \* instance | native | proof: who drives the machine
    phase,             \* none | ready | called | done | halted: the entry point's position
    wasm_gas_price,    \* config.pricing.wasm_gas_price of the current call
    evm_gas,           \* the caller's gas slot (gas_in_out)
    outcome,           \* the UserOutcomeKind returned by the entry point
    info,              \* the compiler's ModuleInfo of the module being instrumented
    binary,            \* the prover's WasmBinary of the same module
    inst,              \* the machine built from the binary: the status global of start.wat
    hostenv,           \* the WasmEnv of a running program: ink, memory, storage, logs
    checker            \* a function handed to the DepthChecker: the rewriter and its walk

vars == << modidx, costs, stack_left, stack_size_limit, gas_left, gas_status,
           frames, run, entered, call0, obs, env, phase, wasm_gas_price,
           evm_gas, outcome, info, binary, inst, hostenv, checker >>

---------------------------------------------------------------------------
(* Machine words.  TLC's integers are 32-bit, so u32 and u64 are modelled  *)
(* by narrower words with the same wrapping and saturating behaviour.      *)

WordBits == 7
GasBits == 20

U32Mod == 2^WordBits
U32Max == U32Mod - 1
U64Mod == 2^GasBits
U64Max == U64Mod - 1

Min(a, b) == IF a <= b THEN a ELSE b
Max(a, b) == IF a >= b THEN a ELSE b

\* u32::saturating_add, u32::saturating_sub
SatAdd32(a, b) == Min(a + b, U32Max)
SatSub(a, b) == Max(a - b, 0)

\* i32.add, i32.sub: wrapping
WrapAdd32(a, b) == (a + b) % U32Mod
WrapSub32(a, b) == (a - b + U32Mod) % U32Mod

\* i64.sub: wrapping
WrapSub64(a, b) == (a - b + U64Mod) % U64Mod

\* u64::saturating_mul
SatMul64(a, b) ==
    IF a = 0 \/ b = 0 THEN 0
    ELSE IF b <= U64Max \div a THEN a * b
    ELSE U64Max

---------------------------------------------------------------------------
(* Operators.  `by` names who put the operator in the stream: the user's   *)
(* function, the Meter or the DepthChecker.                                *)

Op(name, a) == [op |-> name, arg |-> a, by |-> "user"]
MIns(name, a) == [op |-> name, arg |-> a, by |-> "meter"]
Ins(name, a) == [op |-> name, arg |-> a, by |-> "depth"]
O(name) == Op(name, 0)

\* the globals the middlewares add after the program's own
GasLeftGlobal == 1
GasStatusGlobal == 2
StackLeftGlobal == 3

---------------------------------------------------------------------------
(* The modules handed to the compiler.  A function index is a position in  *)
(* `funcs`; a signature index is a position in `sigs`.                     *)

Sig(p, r) == [params |-> p, results |-> r]
Fn(sig, nlocals, body) == [sig |-> sig, locals |-> nlocals, body |-> body]

\* add_one: falls off the end of its body
AddOne == Fn(1, 0, << Op("LocalGet", 0), Op("I32Const", 1), O("I32Add"), O("End") >>)

\* recurse (depth.wat): 1 parameter, 2 locals, operand depth 3, calls itself
Recurse == Fn(2, 2,
    << Op("GlobalGet", 0), Op("I32Const", 1), O("I32Add"), Op("GlobalSet", 0),
       Op("I32Const", 0), Op("I32Const", 0), Op("I32Const", 0), O("Drop"), O("Drop"),
       Op("Call", 2), O("End") >>)

\* recurse (pure/main.wat): no parameters, no locals, calls itself
Recurse6 == Fn(3, 0,
    << Op("GlobalGet", 0), Op("I32Const", 1), O("I32Add"), Op("GlobalSet", 0),
       Op("Call", 3), O("End") >>)

\* leaves by a conditional branch to the function-level scope, or by its end
BrOut == Fn(2, 0,
    << O("Block"), Op("LocalGet", 0), Op("BrIf", 1), O("End"),
       Op("I32Const", 0), O("Drop"), O("End") >>)

\* calls add_one and falls off its end
Caller == Fn(3, 0, << Op("I32Const", 32), Op("Call", 1), O("Drop"), O("End") >>)

\* returns from one branch of an if, traps in the other
IfElse == Fn(2, 1,
    << Op("LocalGet", 0), O("If"), Op("I32Const", 0), O("Drop"), O("Else"),
       O("Unreachable"), O("End"), O("End") >>)

\* leaves by a Return operator
EarlyReturn == Fn(2, 0, << Op("LocalGet", 0), O("If"), O("Return"), O("End"), O("End") >>)

\* spins in a loop
Spin == Fn(2, 0, << O("Loop"), Op("LocalGet", 0), Op("BrIf", 0), O("End"), O("End") >>)

ModPure == [sigs  |-> << Sig(1, 1), Sig(1, 0), Sig(0, 0) >>,
            funcs |-> << AddOne, Recurse, Recurse6, BrOut, Caller, IfElse >>]

ModFlow == [sigs  |-> << Sig(1, 1), Sig(1, 0), Sig(0, 0) >>,
            funcs |-> << AddOne, EarlyReturn, Spin >>]

Modules == << ModPure, ModFlow >>

---------------------------------------------------------------------------
(* worst_case_depth: the frame-size walk.                                   *)

NeutralOps ==
    {"Nop", "Unreachable", "I32Eqz", "I64Eqz", "I32Clz", "I32Ctz", "I32Popcnt",
     "I64Clz", "I64Ctz", "I64Popcnt", "Br", "LocalTee", "MemoryGrow",
     "I32Load", "I64Load", "F32Load", "F64Load", "I32Load8S", "I32Load8U",
     "I32Load16S", "I32Load16U", "I64Load8S", "I64Load8U", "I64Load16S",
     "I64Load16U", "I64Load32S", "I64Load32U", "I32WrapI64", "I64ExtendI32S",
     "I64ExtendI32U", "I32Extend8S", "I32Extend16S", "I64Extend8S",
     "I64Extend16S", "I64Extend32S"}

PushOps ==
    {"LocalGet", "GlobalGet", "MemorySize", "I32Const", "I64Const", "F32Const",
     "F64Const"}

PopOps ==
    {"Drop",
     "I32Eq", "I32Ne", "I32LtS", "I32LtU", "I32GtS", "I32GtU", "I32LeS", "I32LeU",
     "I32GeS", "I32GeU",
     "I64Eq", "I64Ne", "I64LtS", "I64LtU", "I64GtS", "I64GtU", "I64LeS", "I64LeU",
     "I64GeS", "I64GeU",
     "F32Eq", "F32Ne", "F32Lt", "F32Gt", "F32Le", "F32Ge",
     "F64Eq", "F64Ne", "F64Lt", "F64Gt", "F64Le", "F64Ge",
     "I32Add", "I32Sub", "I32Mul", "I32DivS", "I32DivU", "I32RemS", "I32RemU",
     "I64Add", "I64Sub", "I64Mul", "I64DivS", "I64DivU", "I64RemS", "I64RemU",
     "I32And", "I32Or", "I32Xor", "I32Shl", "I32ShrS", "I32ShrU", "I32Rotl", "I32Rotr",
     "I64And", "I64Or", "I64Xor", "I64Shl", "I64ShrS", "I64ShrU", "I64Rotl", "I64Rotr",
     "BrIf", "LocalSet", "GlobalSet"}

Pop2Ops ==
    {"Select", "I32Store", "I64Store", "F32Store", "F64Store", "I32Store8",
     "I32Store16", "I64Store8", "I64Store16", "I64Store32"}

ExceptionOps == {"Try", "Catch", "Throw", "Rethrow"}
ReferenceOps == {"TypedSelect"}
BulkMemoryOps ==
    {"MemoryInit", "DataDrop", "MemoryCopy", "MemoryFill", "TableInit", "ElemDrop",
     "TableCopy", "TableFill", "TableGet", "TableSet", "TableGrow", "TableSize"}
ThreadsOps == {"MemoryAtomicNotify", "AtomicFence", "I32AtomicLoad", "I32AtomicRmwAdd"}
SimdOps == {"V128Load", "V128Store", "V128Const", "I8x16Add", "F32x4Mul"}

\* the fixed slots added to every frame
FixedSlots == 4

\* push!(count), pop!(count) on the walk's running depth
WalkPush(w, count) ==
    [w EXCEPT !.stack = w.stack + count, !.worst = Max(w.worst, w.stack + count)]
WalkPop(w, count) == [w EXCEPT !.stack = SatSub(w.stack, count)]

WalkError(w, text) == [w EXCEPT !.res = "err", !.msg = text]

\* the arm of the walk for a direct call
WalkCall(w, module, index) ==
    IF index \notin DOMAIN module.funcs
    THEN WalkError(w, "No function at index")
    ELSE LET sig == module.funcs[index].sig IN
         IF sig \notin DOMAIN module.sigs
         THEN WalkError(w, "No function signature for call")
         ELSE LET outs == module.sigs[sig].params
                  ins  == module.sigs[sig].results
              IN  WalkPop(WalkPush(w, outs), ins)

\* the arm of the walk for an indirect call
WalkCallIndirect(w, module, index) ==
    IF index \notin DOMAIN module.sigs
    THEN WalkError(w, "No table at index")
    ELSE LET outs == module.sigs[index].params
             ins  == module.sigs[index].results
         IN  WalkPop(WalkPush(w, outs), ins)

\* one iteration of the walk's loop: the match on the operator
WalkOp(w, module, o) ==
    IF o.op = "Block" THEN [w EXCEPT !.scopes = Append(w.scopes, w.stack)]
    ELSE IF o.op = "If" THEN
        LET p == WalkPop(w, 1) IN [p EXCEPT !.scopes = Append(p.scopes, p.stack)]
    ELSE IF o.op = "Else" THEN
        IF Len(w.scopes) = 0 THEN WalkError(w, "Malformed if-else scope")
        ELSE [w EXCEPT !.stack = w.scopes[Len(w.scopes)]]
    ELSE IF o.op = "End" THEN
        IF Len(w.scopes) = 0 THEN WalkError(w, "Malformed scoping detected at end of block")
        ELSE [w EXCEPT !.stack = w.scopes[Len(w.scopes)],
                       !.scopes = SubSeq(w.scopes, 1, Len(w.scopes) - 1)]
    ELSE IF o.op = "Call" THEN WalkCall(w, module, o.arg)
    ELSE IF o.op = "CallIndirect" THEN WalkCallIndirect(w, module, o.arg)
    ELSE IF o.op \in NeutralOps THEN w
    ELSE IF o.op \in PushOps THEN WalkPush(w, 1)
    ELSE IF o.op \in PopOps THEN WalkPop(w, 1)
    ELSE IF o.op \in Pop2Ops THEN WalkPop(w, 2)
    ELSE IF o.op \in ExceptionOps THEN WalkError(w, "exception-handling extension not supported")
    ELSE IF o.op \in ReferenceOps THEN WalkError(w, "reference-types extension not supported")
    ELSE IF o.op \in BulkMemoryOps THEN WalkError(w, "bulk-memory-operations extension not supported")
    ELSE IF o.op \in ThreadsOps THEN WalkError(w, "threads extension not supported")
    ELSE IF o.op \in SimdOps THEN WalkError(w, "SIMD extension not supported")
    ELSE [w EXCEPT !.res = "panic", !.msg = "not implemented"]

\* the loop `for op in code` over operators lo..hi
RECURSIVE WalkFrom(_, _, _, _, _)
WalkFrom(code, module, lo, hi, w) ==
    IF lo > hi \/ w.res # "run" THEN w
    ELSE IF lo = hi THEN WalkOp(w, module, code[lo])
    ELSE LET mid == (lo + hi) \div 2
             v   == WalkFrom(code, module, lo, mid, w)
         IN  IF v.res # "run" THEN v ELSE WalkFrom(code, module, mid + 1, hi, v)

\* Ok(worst + 4), an Err, or a panic of the process
worst_case_depth(code, module) ==
    LET w == WalkFrom(code, module, 1, Len(code),
                      [worst |-> 0, stack |-> 0, scopes |-> << 0 >>, res |-> "run", msg |-> ""])
    IN  IF w.res = "run"
        THEN [res |-> "ok", size |-> w.worst + FixedSlots, msg |-> ""]
        ELSE [res |-> w.res, size |-> 0, msg |-> w.msg]

---------------------------------------------------------------------------
(* FunctionDepthChecker::feed: the per-function rewriter.                  *)

\* a prelude that also rejects space = size
PreludeOpsLe(size) ==
    << Ins("GlobalGet", StackLeftGlobal), Ins("I32Const", size % U32Mod), Ins("I32LeU", 0),
       Ins("If", 0),
       Ins("I32Const", 0), Ins("GlobalSet", StackLeftGlobal), Ins("Unreachable", 0),
       Ins("End", 0),
       Ins("GlobalGet", StackLeftGlobal), Ins("I32Const", size % U32Mod), Ins("I32Sub", 0),
       Ins("GlobalSet", StackLeftGlobal) >>

\* the check-and-deduct sequence emitted at the head of a function
PreludeOps(size) ==
    << Ins("GlobalGet", StackLeftGlobal), Ins("I32Const", size % U32Mod), Ins("I32LtU", 0),
       Ins("If", 0),
       Ins("I32Const", 0), Ins("GlobalSet", StackLeftGlobal), Ins("Unreachable", 0),
       Ins("End", 0),
       Ins("GlobalGet", StackLeftGlobal), Ins("I32Const", size % U32Mod), Ins("I32Sub", 0),
       Ins("GlobalSet", StackLeftGlobal) >>

\* the closure `reclaim`: space += size
ReclaimOps(size) ==
    << Ins("GlobalGet", StackLeftGlobal), Ins("I32Const", size % U32Mod), Ins("I32Add", 0),
       Ins("GlobalSet", StackLeftGlobal) >>

\* the loop `for op in code` over operators lo..hi: a reclaim before every
\* Return, then the operator
RECURSIVE EmitBody(_, _, _, _)
EmitBody(code, lo, hi, size) ==
    IF lo > hi THEN << >>
    ELSE IF lo = hi
        THEN (IF code[lo].op = "Return" THEN ReclaimOps(size) ELSE << >>) \o << code[lo] >>
    ELSE LET mid == (lo + hi) \div 2
         IN  EmitBody(code, lo, mid, size) \o EmitBody(code, mid + 1, hi, size)

\* what feed emits once it holds the whole function
EmitFunction(code, size) ==
    PreludeOps(size) \o EmitBody(code, 1, Len(code), size) \o ReclaimOps(size)

\* a fresh FunctionDepthChecker
NewChecker == [code |-> << >>, scopes |-> 1, done |-> FALSE, out |-> << >>,
               res |-> "ok", msg |-> ""]

\* feed(operator, state): buffers the operator; on the End that closes the
\* function, sizes the frame and emits the instrumented function
Feed(c, module, o) ==
    IF c.res # "ok" THEN c
    ELSE IF c.done THEN [c EXCEPT !.res = "err", !.msg = "Finalized too soon"]
    ELSE
        LET scopes == IF o.op \in {"Block", "Loop", "If"} THEN c.scopes + 1
                      ELSE IF o.op = "End" THEN c.scopes - 1
                      ELSE c.scopes
        IN
        IF scopes < 0
        THEN [c EXCEPT !.scopes = scopes, !.res = "err", !.msg = "Malformed scoping detected"]
        ELSE
            LET last == scopes = 0 /\ o.op = "End"
                code == Append(c.code, o)
            IN
            IF ~last THEN [c EXCEPT !.scopes = scopes, !.code = code]
            ELSE
                LET d == worst_case_depth(code, module) IN
                IF d.res # "ok"
                THEN [c EXCEPT !.scopes = scopes, !.code = << >>, !.res = d.res, !.msg = d.msg]
                ELSE [c EXCEPT !.scopes = scopes, !.code = << >>, !.done = TRUE,
                               !.out = c.out \o EmitFunction(code, d.size)]

\* the compiler feeding operators lo..hi of a body, in order
RECURSIVE FeedAll(_, _, _, _, _)
FeedAll(c, module, body, lo, hi) ==
    IF lo > hi THEN c
    ELSE IF lo = hi THEN Feed(c, module, body[lo])
    ELSE LET mid == (lo + hi) \div 2
             n   == FeedAll(c, module, body, lo, mid)
         IN  IF n.res # "ok" THEN n ELSE FeedAll(n, module, body, mid + 1, hi)

---------------------------------------------------------------------------
(* The Meter pass, as the specification describes it (section 4.4): one    *)
(* charge at the head of every basic block.                                *)

CostTables == {"zero", "add100", "one"}

\* config.costs: |_| 0, expensive_add, |_| 1
Cost(k, o) ==
    IF k = "add100" THEN (IF o.op = "I32Add" THEN 100 ELSE 0)
    ELSE IF k = "one" THEN 1
    ELSE 0

\* an operator that closes a basic block
EndsBlock(o) ==
    o.op \in {"Block", "Loop", "If", "Else", "End", "Br", "BrTable", "Return", "Unreachable"}

\* a charge that also rejects gas_left = cost
MeterChargeLe(cost) ==
    << MIns("GlobalGet", GasLeftGlobal), MIns("I64Const", cost % U64Mod), MIns("I64LeU", 0),
       MIns("If", 0),
       MIns("I32Const", 1), MIns("GlobalSet", GasStatusGlobal), MIns("Unreachable", 0),
       MIns("End", 0),
       MIns("GlobalGet", GasLeftGlobal), MIns("I64Const", cost % U64Mod), MIns("I64Sub", 0),
       MIns("GlobalSet", GasLeftGlobal) >>

\* if gas_left < cost: gas_status := 1; unreachable.  gas_left -= cost
MeterCharge(cost) ==
    << MIns("GlobalGet", GasLeftGlobal), MIns("I64Const", cost % U64Mod), MIns("I64LtU", 0),
       MIns("If", 0),
       MIns("I32Const", 1), MIns("GlobalSet", GasStatusGlobal), MIns("Unreachable", 0),
       MIns("End", 0),
       MIns("GlobalGet", GasLeftGlobal), MIns("I64Const", cost % U64Mod), MIns("I64Sub", 0),
       MIns("GlobalSet", GasLeftGlobal) >>

\* the Meter's rewriter: block holds the operators since the last boundary
RECURSIVE MeterFrom(_, _, _, _, _)
MeterFrom(k, body, i, block, cost) ==
    IF i > Len(body) THEN block
    ELSE LET o == body[i]
             b == Append(block, o)
             c == cost + Cost(k, o)
         IN  IF EndsBlock(o)
             THEN MeterCharge(c) \o b \o MeterFrom(k, body, i + 1, << >>, 0)
             ELSE MeterFrom(k, body, i + 1, b, c)

MeterBody(k, body) == MeterFrom(k, body, 1, << >>, 0)

---------------------------------------------------------------------------
(* The compiler driving every function through the middleware chain:       *)
(* Meter first, DepthChecker second.                                       *)

Instrument(k, module, f) ==
    LET metered == MeterBody(k, module.funcs[f].body)
    IN  FeedAll(NewChecker, module, metered, 1, Len(metered))

Compiled ==
    [k \in CostTables |->
        [m \in DOMAIN Modules |->
            [f \in DOMAIN Modules[m].funcs |-> Instrument(k, Modules[m], f)]]]

\* Module::new succeeds when every function went through the chain
Loadable(k, m) ==
    \A f \in DOMAIN Modules[m].funcs : Compiled[k][m][f].res = "ok" /\ Compiled[k][m][f].done

ICode(k, m, f) == Compiled[k][m][f].out

\* the frame cost of a compiled function: the constant its prelude compares with
FrameCost(k, m, f) == ICode(k, m, f)[2].arg

---------------------------------------------------------------------------
(* Execution of inserted operators on a value stack.  `g` maps the index   *)
(* of an instrumentation global to its value.                              *)

Top(vs) == vs[Len(vs)]
Under(vs) == vs[Len(vs) - 1]
Pop(vs, n) == SubSeq(vs, 1, Len(vs) - n)
Bool(b) == IF b THEN 1 ELSE 0

\* e: [vs, g, trapped, skip]; skip > 0 inside an if whose condition was 0
InsOp(e, o) ==
    IF e.trapped THEN e
    ELSE IF e.skip > 0 THEN
        (IF o.op = "If" THEN [e EXCEPT !.skip = e.skip + 1]
         ELSE IF o.op = "End" THEN [e EXCEPT !.skip = e.skip - 1]
         ELSE e)
    ELSE IF o.op = "GlobalGet" THEN [e EXCEPT !.vs = Append(e.vs, e.g[o.arg])]
    ELSE IF o.op = "GlobalSet" THEN [e EXCEPT !.g[o.arg] = Top(e.vs), !.vs = Pop(e.vs, 1)]
    ELSE IF o.op \in {"I32Const", "I64Const"} THEN [e EXCEPT !.vs = Append(e.vs, o.arg)]
    ELSE IF o.op \in {"I32LtU", "I64LtU"} THEN
        [e EXCEPT !.vs = Append(Pop(e.vs, 2), Bool(Under(e.vs) < Top(e.vs)))]
    ELSE IF o.op \in {"I32LeU", "I64LeU"} THEN
        [e EXCEPT !.vs = Append(Pop(e.vs, 2), Bool(Under(e.vs) <= Top(e.vs)))]
    ELSE IF o.op = "I32Sub" THEN
        [e EXCEPT !.vs = Append(Pop(e.vs, 2), WrapSub32(Under(e.vs), Top(e.vs)))]
    ELSE IF o.op = "I32Add" THEN
        [e EXCEPT !.vs = Append(Pop(e.vs, 2), WrapAdd32(Under(e.vs), Top(e.vs)))]
    ELSE IF o.op = "I64Sub" THEN
        [e EXCEPT !.vs = Append(Pop(e.vs, 2), WrapSub64(Under(e.vs), Top(e.vs)))]
    ELSE IF o.op = "If" THEN
        [e EXCEPT !.vs = Pop(e.vs, 1), !.skip = IF Top(e.vs) = 0 THEN 1 ELSE 0]
    ELSE IF o.op = "Unreachable" THEN [e EXCEPT !.trapped = TRUE]
    ELSE e

RECURSIVE InsFrom(_, _, _, _)
InsFrom(code, i, n, e) ==
    IF n = 0 THEN e ELSE InsFrom(code, i + 1, n - 1, InsOp(e, code[i]))

\* the operators one middleware inserted at position pc
RECURSIVE InsRunLen(_, _, _)
InsRunLen(code, pc, by) ==
    IF pc > Len(code) \/ code[pc].by # by THEN 0 ELSE 1 + InsRunLen(code, pc + 1, by)

\* run them on the globals g
ExecIns(code, pc, g) ==
    InsFrom(code, pc, InsRunLen(code, pc, code[pc].by),
            [vs |-> << >>, g |-> g, trapped |-> FALSE, skip |-> 0])

---------------------------------------------------------------------------
(* Structured control flow of a function body.                             *)

\* position of the End (or, with else = TRUE, the Else) that matches the
\* scope opened just before position i; 0 when there is none
RECURSIVE Match(_, _, _, _)
Match(code, i, depth, else) ==
    IF i > Len(code) THEN 0
    ELSE IF code[i].op \in {"Block", "Loop", "If"} THEN Match(code, i + 1, depth + 1, else)
    ELSE IF code[i].op = "End" THEN
        (IF depth = 0 THEN (IF else THEN 0 ELSE i) ELSE Match(code, i + 1, depth - 1, else))
    ELSE IF code[i].op = "Else" /\ depth = 0 /\ else THEN i
    ELSE Match(code, i + 1, depth, else)

MatchEnd(code, pc) == Match(code, pc + 1, 0, FALSE)
MatchElse(code, pc) == Match(code, pc + 1, 0, TRUE)

\* a label of the running function: where a branch to it continues
Label(loop, start, end) == [loop |-> loop, start |-> start, end |-> end]

---------------------------------------------------------------------------
(* The machine: globals, call stack, and one step of the running program.  *)

Globals(sl, gl, gs) == [sl |-> sl, gl |-> gl, gs |-> gs]
GlobalMap(g) == (GasLeftGlobal :> g.gl) @@ (GasStatusGlobal :> g.gs) @@ (StackLeftGlobal :> g.sl)
FromMap(gm) == Globals(gm[StackLeftGlobal], gm[GasLeftGlobal], gm[GasStatusGlobal])

Frame(f) == [fn |-> f, pc |-> 1, labels |-> << >>]

\* what happened last
Event(kind, f, a, pre, post, t) ==
    [kind |-> kind, f |-> f, a |-> a, pre |-> pre, post |-> post, t |-> t]
NoEvent == Event("none", 0, 0, Globals(0, 0, 0), Globals(0, 0, 0), FALSE)

SetTop(fs, fr) == [fs EXCEPT ![Len(fs)] = fr]

\* the machine x after the top frame continues at pc with the given labels
Goto(x, pc, labels) ==
    [x EXCEPT !.frames = SetTop(x.frames, [Top(x.frames) EXCEPT !.pc = pc, !.labels = labels])]

\* the top function is left: its caller continues, or the call is over
Leave(x) ==
    IF Len(x.frames) = 1
    THEN [x EXCEPT !.frames = << >>, !.run = "returned"]
    ELSE [x EXCEPT !.frames = Pop(x.frames, 1)]

\* br d
Branch(x, d) ==
    LET fr == Top(x.frames)
        n  == Len(fr.labels)
    IN  IF d >= n THEN Leave(x)
        ELSE LET l == fr.labels[n - d] IN
             IF l.loop THEN Goto(x, l.start + 1, SubSeq(fr.labels, 1, n - d))
             ELSE Goto(x, l.end + 1, SubSeq(fr.labels, 1, n - d - 1))

\* a run of inserted operators, executed in one piece
StepInserted(x, code) ==
    LET fr   == Top(x.frames)
        o    == code[fr.pc]
        e    == ExecIns(code, fr.pc, GlobalMap(x.g))
        kind == IF o.by = "meter" THEN "meter"
                ELSE IF fr.pc = 1 THEN "prelude" ELSE "reclaim"
        post == FromMap(e.g)
        ev   == Event(kind, fr.fn, code[fr.pc + 1].arg, x.g, post, e.trapped)
    IN  IF e.trapped
        THEN [x EXCEPT !.g = post, !.frames = << >>, !.obs = ev,
                       !.run = IF o.by = "meter" THEN "trap_gas" ELSE "trap_depth"]
        ELSE [Goto(x, fr.pc + InsRunLen(code, fr.pc, o.by), fr.labels)
                 EXCEPT !.g = post, !.obs = ev,
                        !.entered = IF kind = "prelude" THEN x.entered + 1 ELSE x.entered]

\* one operator of the user's function; c is the value of its condition
StepUser(x, code, c) ==
    LET fr == Top(x.frames)
        pc == fr.pc
        o  == code[pc]
        n  == Len(fr.labels)
    IN  IF o.op = "Block"
            THEN Goto(x, pc + 1, Append(fr.labels, Label(FALSE, pc, MatchEnd(code, pc))))
        ELSE IF o.op = "Loop"
            THEN Goto(x, pc + 1, Append(fr.labels, Label(TRUE, pc, MatchEnd(code, pc))))
        ELSE IF o.op = "If" THEN
            (IF c THEN Goto(x, pc + 1, Append(fr.labels, Label(FALSE, pc, MatchEnd(code, pc))))
             ELSE IF MatchElse(code, pc) # 0
                  THEN Goto(x, MatchElse(code, pc) + 1,
                            Append(fr.labels, Label(FALSE, pc, MatchEnd(code, pc))))
             ELSE Goto(x, MatchEnd(code, pc) + 1, fr.labels))
        ELSE IF o.op = "Else" THEN Goto(x, fr.labels[n].end + 1, Pop(fr.labels, 1))
        ELSE IF o.op = "End" THEN
            (IF n = 0 THEN Leave(x) ELSE Goto(x, pc + 1, Pop(fr.labels, 1)))
        ELSE IF o.op = "Br" THEN Branch(x, o.arg)
        ELSE IF o.op = "BrIf" THEN (IF c THEN Branch(x, o.arg) ELSE Goto(x, pc + 1, fr.labels))
        ELSE IF o.op = "Return" THEN Leave(x)
        ELSE IF o.op = "Unreachable" THEN [x EXCEPT !.frames = << >>, !.run = "trap_other"]
        ELSE IF o.op = "Call"
            THEN [x EXCEPT !.frames = Append(SetTop(x.frames, [fr EXCEPT !.pc = pc + 1]),
                                             Frame(o.arg))]
        ELSE Goto(x, pc + 1, fr.labels)

StepMachine(k, m, x, c) ==
    LET fr   == Top(x.frames)
        code == ICode(k, m, fr.fn)
        o    == code[fr.pc]
    IN  IF o.by # "user" THEN StepInserted(x, code)
        ELSE LET y == StepUser(x, code, c) IN
             [y EXCEPT !.obs = Event(IF y.run = "returned" THEN "return" ELSE "op",
                                     fr.fn, 0, x.g, x.g, y.run = "trap_other")]

---------------------------------------------------------------------------
(* Host operations on the instrumentation globals.                         *)

Ready(g) == [tag |-> "Ready", gas |-> g]
Exhausted == [tag |-> "Exhausted", gas |-> 0]

\* MeteredMachine::gas_left
MeterReading(g) == IF g.gs = 0 THEN Ready(g.gl) ELSE Exhausted

\* a set_gas that leaves the status as it is
set_gas_keep_status(g, gas) == [g EXCEPT !.gl = gas]

\* MeteredMachine::set_gas
set_gas(g, gas) == [g EXCEPT !.gl = gas, !.gs = 0]

\* DepthCheckedMachine::set_stack
set_stack(g, size) == [g EXCEPT !.sl = size]

\* reset_stack: space := limit
reset_stack(limit, space) == limit

\* a set_stack_limit that forgets to take the old limit off
set_stack_limit_no_sub(limit, space, new_limit) == SatAdd32(space, new_limit)

\* set_stack_limit: the new space
set_stack_limit(limit, space, new_limit) == SatSub(SatAdd32(space, new_limit), limit)

---------------------------------------------------------------------------
(* Pricing.                                                                *)

Bips == 10000

evm_to_wasm_round_up(price, gas) ==
    IF price = 0 THEN [ok |-> FALSE, v |-> 0]
    ELSE [ok |-> TRUE, v |-> (SatMul64(gas, Bips) + price - 1) \div price]

\* PricingParams::evm_to_wasm: a Result
evm_to_wasm(price, gas) ==
    IF price = 0 THEN [ok |-> FALSE, v |-> 0]
    ELSE [ok |-> TRUE, v |-> SatMul64(gas, Bips) \div price]

wasm_to_evm_round_up(price, gas) == (SatMul64(gas, price) + Bips - 1) \div Bips

\* PricingParams::wasm_to_evm
wasm_to_evm(price, gas) == SatMul64(gas, price) \div Bips

---------------------------------------------------------------------------
(* State.                                                                  *)

Idle == {"idle", "returned", "trap_depth", "trap_gas", "trap_other"}

G == Globals(stack_left, gas_left, gas_status)

Machine == [frames |-> frames, g |-> G, run |-> run, entered |-> entered, obs |-> obs]

\* the next state holds the machine y
Install(y) ==
    /\ frames' = y.frames
    /\ stack_left' = y.g.sl
    /\ gas_left' = y.g.gl
    /\ gas_status' = y.g.gs
    /\ run' = y.run
    /\ entered' = y.entered
    /\ obs' = y.obs

CallRecord(f, g, gas, ret) == [f |-> f, g |-> g, evm |-> gas, ret |-> ret]
NoCall == CallRecord(0, Globals(0, 0, 0), 0, 0)

\* the stack limits and gas amounts the harnesses draw from
DepthLimits == {6, 7, 12, 32}
GasAmounts == {0, 50, 99, 100, 500}

InitWith(envs, tables, mods, depths) ==
    /\ env \in envs
    /\ phase = IF env = "instance" THEN "none" ELSE "ready"
    /\ costs \in tables
    /\ modidx \in mods
    /\ stack_size_limit \in depths
    /\ stack_left = stack_size_limit
    /\ gas_left = 0
    /\ gas_status = 0
    /\ frames = << >>
    /\ run = IF Loadable(costs, modidx) THEN "idle" ELSE "no_instance"
    /\ entered = 0
    /\ call0 = NoCall
    /\ obs = NoEvent
    /\ wasm_gas_price = 0
    /\ evm_gas = 0
    /\ outcome = "none"

---------------------------------------------------------------------------
(* The running program.                                                    *)

Step ==
    /\ run = "running"
    /\ \E c \in BOOLEAN : Install(StepMachine(costs, modidx, Machine, c))
    /\ UNCHANGED << checker, info, binary, inst, hostenv, modidx, costs, stack_size_limit, call0, env, phase,
                    wasm_gas_price, evm_gas, outcome >>

---------------------------------------------------------------------------
(* The instance harness: calls of exported functions and host operations   *)
(* between them.                                                           *)

CallFunction(f) ==
    /\ env = "instance"
    /\ run \in Idle
    /\ f \in DOMAIN Modules[modidx].funcs
    /\ frames' = << Frame(f) >>
    /\ run' = "running"
    /\ entered' = 0
    /\ call0' = CallRecord(f, G, 0, 0)
    /\ obs' = Event("call", f, 0, G, G, FALSE)
    /\ UNCHANGED << checker, info, binary, inst, hostenv, modidx, costs, stack_left, stack_size_limit, gas_left, gas_status,
                    env, phase, wasm_gas_price, evm_gas, outcome >>

ResetStack ==
    /\ env = "instance"
    /\ run \in Idle
    /\ stack_left' = reset_stack(stack_size_limit, stack_left)
    /\ obs' = Event("reset", 0, 0, G, [G EXCEPT !.sl = stack_left'], FALSE)
    /\ UNCHANGED << checker, info, binary, inst, hostenv, modidx, costs, stack_size_limit, gas_left, gas_status, frames, run,
                    entered, call0, env, phase, wasm_gas_price, evm_gas, outcome >>

SetStackLimit(new_limit) ==
    /\ env = "instance"
    /\ run \in Idle
    /\ stack_size_limit' = new_limit
    /\ stack_left' = set_stack_limit(stack_size_limit, stack_left, new_limit)
    /\ obs' = Event("set_limit", stack_size_limit, new_limit, G,
                    [G EXCEPT !.sl = stack_left'], FALSE)
    /\ UNCHANGED << checker, info, binary, inst, hostenv, modidx, costs, gas_left, gas_status, frames, run, entered, call0,
                    env, phase, wasm_gas_price, evm_gas, outcome >>

SetGas(gas) ==
    /\ env = "instance"
    /\ run \in Idle
    /\ gas_left' = set_gas(G, gas).gl
    /\ gas_status' = set_gas(G, gas).gs
    /\ obs' = Event("set_gas", 0, gas, G, set_gas(G, gas), FALSE)
    /\ UNCHANGED << checker, info, binary, inst, hostenv, modidx, costs, stack_left, stack_size_limit, frames, run, entered,
                    call0, env, phase, wasm_gas_price, evm_gas, outcome >>

Init ==
    /\ InitWith({"instance"}, {"zero"}, DOMAIN Modules, DepthLimits)
    /\ info = << >> /\ binary = << >> /\ inst = << >> /\ checker = << >> /\ hostenv = << >>

Next ==
    \/ \E f \in DOMAIN Modules[modidx].funcs : CallFunction(f)
    \/ Step
    \/ ResetStack
    \/ \E n \in DepthLimits \cup {48, 64, U32Max} : SetStackLimit(n)

Spec == Init /\ [][Next]_vars

\* the metering harness: expensive_add, a deep stack, gas set between calls
InitGas ==
    /\ InitWith({"instance"}, {"add100"}, {1}, {64})
    /\ info = << >> /\ binary = << >> /\ inst = << >> /\ checker = << >> /\ hostenv = << >>

NextGas ==
    \/ \E gas \in GasAmounts : SetGas(gas)
    \/ \E f \in DOMAIN Modules[modidx].funcs : CallFunction(f)
    \/ Step

SpecGas == InitGas /\ [][NextGas]_vars

---------------------------------------------------------------------------
(* The two call entry points.                                              *)

\* the inputs the entry points are called with
Prices == {0, 1, 20000}
EvmGasAmounts == {0, 3, U64Max}
CallDepths == {6, 13, 32}
Statuses == {0, 1}

Result(kind, gas) == [kind |-> kind, gas |-> gas]

\* callUserWasmRustImpl after the program stopped: the outcome and the gas
\* handed to finish!
LinkOutcome(g, status) ==
    IF g.gs # 0 THEN Result("OutOfGas", 0)
    ELSE IF g.sl = 0 THEN Result("OutOfStack", 0)
    ELSE IF status = 0 THEN Result("Success", g.gl)
    ELSE Result("Revert", g.gl)

\* finish!: the caller's gas slot after the call
FinishGas(price, slot, gas_arg) ==
    IF price # 0 THEN wasm_to_evm(price, gas_arg) ELSE slot

\* callUserWasmRustImpl up to program_call_main
CallUserWasm(price, gas, depth, f, status) ==
    /\ env = "proof"
    /\ phase \in {"ready", "done"}
    /\ LET bought   == evm_to_wasm(price, gas)
           wasm_gas == IF bought.ok THEN bought.v ELSE U64Max
           g        == set_stack(set_gas(G, wasm_gas), depth)
       IN  /\ gas_left' = g.gl
           /\ gas_status' = g.gs
           /\ stack_left' = g.sl
           /\ call0' = CallRecord(f, g, gas, status)
           /\ obs' = Event("call", f, 0, g, g, FALSE)
    /\ wasm_gas_price' = price
    /\ evm_gas' = gas
    /\ frames' = << Frame(f) >>
    /\ run' = "running"
    /\ entered' = 0
    /\ phase' = "called"
    /\ outcome' = "none"
    /\ UNCHANGED << checker, info, binary, inst, hostenv, modidx, costs, stack_size_limit, env >>

\* callUserWasmRustImpl after program_call_main.  A trap that the
\* instrumentation did not cause stops the proving machine: nothing is
\* written.
FinishUserWasm ==
    /\ env = "proof"
    /\ phase = "called"
    /\ run \in Idle
    /\ LET r == LinkOutcome(G, call0.ret) IN
       IF run = "trap_other"
       THEN /\ phase' = "halted"
            /\ obs' = Event("halt", call0.f, 0, G, G, TRUE)
            /\ UNCHANGED << outcome, evm_gas >>
       ELSE /\ phase' = "done"
            /\ outcome' = r.kind
            /\ evm_gas' = FinishGas(wasm_gas_price, evm_gas, r.gas)
            /\ obs' = Event("finish", call0.f, r.gas, G, G, FALSE)
    /\ UNCHANGED << checker, info, binary, inst, hostenv, modidx, costs, stack_left, stack_size_limit, gas_left, gas_status,
                    frames, run, entered, call0, env, wasm_gas_price >>

\* run_main's classification of how the program stopped (section 4.10)
RunMainOutcome(how, status) ==
    IF how = "trap_gas" THEN "OutOfGas"
    ELSE IF how = "trap_depth" THEN "OutOfStack"
    ELSE IF how = "returned" THEN (IF status = 0 THEN "Success" ELSE "Revert")
    ELSE "Failure"

\* u64 from MachineMeter
MeterInto(m) == IF m.tag = "Ready" THEN m.gas ELSE 0

\* an entry point that hands the remaining ink back whatever the outcome
KeepInk(status, left) == left

\* stylus_call: take all gas when out of stack
ForfeitInk(status, left) == IF status = "OutOfStack" THEN 0 ELSE left

\* pricing.gas_to_ink, pricing.ink_to_gas (section 6)
gas_to_ink(price, gas) == evm_to_wasm(price, gas).v
ink_to_gas(price, ink) == wasm_to_evm(price, ink)

\* StylusConfig::version: the configuration of a Stylus version; there is
\* none for a version other than 0 and 1
StylusConfig_version(version) ==
    IF version = 0 THEN [res |-> "ok", costs |-> "zero", max_depth |-> U32Max]
    ELSE IF version = 1 THEN [res |-> "ok", costs |-> "one", max_depth |-> U32Max \div 4]
    ELSE [res |-> "panic", costs |-> "none", max_depth |-> 0]

\* stylus_call up to the call of the program's entry point.  The compile
\* configuration is made for config.version and the module is deserialized
\* with it: a version without configuration and a module that does not
\* deserialize both end in panic!, which unwinds out of the extern "C"
\* function.
StylusCall(version, valid, price, gas, depth, f, status) ==
    /\ env = "native"
    /\ phase \in {"ready", "done"}
    /\ price # 0
    /\ LET compile == StylusConfig_version(version)
           g       == set_stack(set_gas(G, gas_to_ink(price, gas)), depth)
       IN  IF compile.res = "panic" \/ ~ valid
           THEN /\ outcome' = "panic"
                /\ phase' = "halted"
                /\ obs' = Event("halt", 0, version, G, G, ~ valid)
                /\ wasm_gas_price' = price
                /\ evm_gas' = gas
                /\ UNCHANGED << gas_left, gas_status, stack_left, call0, frames, run,
                                entered >>
           ELSE /\ compile.costs = costs
                /\ gas_left' = g.gl
                /\ gas_status' = g.gs
                /\ stack_left' = g.sl
                /\ call0' = CallRecord(f, g, gas, status)
                /\ obs' = Event("call", f, 0, g, g, FALSE)
                /\ wasm_gas_price' = price
                /\ evm_gas' = gas
                /\ frames' = << Frame(f) >>
                /\ run' = "running"
                /\ entered' = 0
                /\ phase' = "called"
                /\ outcome' = "none"
    /\ UNCHANGED << checker, info, binary, inst, hostenv, modidx, costs, stack_size_limit, env >>

\* stylus_call from the return of run_main
FinishStylusCall ==
    /\ env = "native"
    /\ phase = "called"
    /\ run \in Idle
    /\ LET status   == RunMainOutcome(run, call0.ret)
           ink_left == ForfeitInk(status, MeterInto(MeterReading(G)))
       IN  /\ outcome' = status
           /\ evm_gas' = ink_to_gas(wasm_gas_price, ink_left)
           /\ obs' = Event("finish", call0.f, ink_left, G, G, FALSE)
    /\ phase' = "done"
    /\ UNCHANGED << checker, info, binary, inst, hostenv, modidx, costs, stack_left, stack_size_limit, gas_left, gas_status,
                    frames, run, entered, call0, env, wasm_gas_price >>

InitCall ==
    /\ InitWith({"native", "proof"}, {"zero", "one"}, {1}, {U32Max})
    /\ info = << >> /\ binary = << >> /\ inst = << >> /\ checker = << >> /\ hostenv = << >>

NextCall ==
    \/ /\ env = "proof"
       /\ phase \in {"ready", "done"}
       /\ \E price \in Prices, gas \in EvmGasAmounts, depth \in CallDepths,
             f \in DOMAIN Modules[modidx].funcs, status \in Statuses :
               CallUserWasm(price, gas, depth, f, status)
    \/ /\ env = "native"
       /\ phase \in {"ready", "done"}
       /\ \E version \in 0 .. 2, valid \in BOOLEAN,
             price \in Prices, gas \in EvmGasAmounts, depth \in CallDepths,
             f \in DOMAIN Modules[modidx].funcs, status \in Statuses :
               StylusCall(version, valid, price, gas, depth, f, status)
    \/ Step
    \/ FinishUserWasm
    \/ FinishStylusCall

SpecCall == InitCall /\ [][NextCall]_vars

---------------------------------------------------------------------------
(* Properties.                                                             *)

\* the call has just stopped: no host operation has touched the globals since
Finished ==
    /\ run \in Idle \ {"idle"}
    /\ obs.kind \in {"prelude", "reclaim", "meter", "op", "return"}

\* the frame costs of the functions on the call stack that have paid theirs
RECURSIVE PaidFrom(_)
PaidFrom(i) ==
    IF i > Len(frames) THEN 0
    ELSE (IF frames[i].pc > 1 THEN FrameCost(costs, modidx, frames[i].fn) ELSE 0)
         + PaidFrom(i + 1)

ActiveCost == PaidFrom(1)

\* the function does nothing but call itself
CallsItself(m, f) ==
    LET body == Modules[m].funcs[f].body IN
    /\ \E i \in DOMAIN body : body[i] = Op("Call", f)
    /\ \A i \in DOMAIN body :
          body[i].op \notin {"Block", "Loop", "If", "Else", "Br", "BrIf", "Return", "Unreachable"}

\* the worst operand depth the walk finds in the body the DepthChecker is fed
OperandDepth(k, m, f) ==
    worst_case_depth(MeterBody(k, Modules[m].funcs[f].body), Modules[m]).size - FixedSlots

\* C1: when a call of an instrumented function returns normally (Return,
\* falling off the end, or a branch to the function-level scope), stack_left
\* is what it was immediately before the call.
C1_StackRestored ==
    (env = "instance" /\ Finished /\ run = "returned") => stack_left = call0.g.sl

\* C2: a block charge of cost c with gas_left >= c takes exactly c, leaves
\* gas_status as it was and lets the block run; with gas_left < c it sets
\* gas_status to 1, traps, and leaves gas_left alone.  So add_one, whose one
\* block costs 100, returns from 100 gas with 0 left and is Exhausted from
\* 0, 50 or 99 (given stack space for its frame).
C2_MeterCharge ==
    /\ obs.kind = "meter" =>
          IF obs.pre.gl >= obs.a
          THEN /\ ~obs.t
               /\ run = "running"
               /\ obs.post = [obs.pre EXCEPT !.gl = obs.pre.gl - obs.a]
          ELSE /\ obs.t
               /\ run = "trap_gas"
               /\ obs.post = [obs.pre EXCEPT !.gs = 1]
    /\ (/\ Finished
        /\ call0.f # 0
        /\ costs = "add100"
        /\ Modules[modidx].funcs[call0.f] = AddOne
        /\ call0.g.sl >= FrameCost(costs, modidx, call0.f)) =>
          IF call0.g.gl >= 100
          THEN run = "returned" /\ gas_left = call0.g.gl - 100
          ELSE run = "trap_gas" /\ MeterReading(G) = Exhausted /\ gas_left = call0.g.gl

C2_Witness ==
    /\ obs.kind = "meter" /\ obs.a = 100 /\ obs.pre.gl = 100 /\ ~obs.t
    /\ gas_left = 0 /\ gas_status = 0

\* C3: stack_left plus the frame costs of the active functions never exceeds
\* stack_size_limit, and stack_left stays a u32 within the limit.
C3_StackBudget ==
    /\ stack_left + ActiveCost <= stack_size_limit
    /\ stack_left \in 0..U32Max
    /\ stack_left <= stack_size_limit

C3_Witness ==
    /\ Len(frames) >= 2
    /\ ActiveCost >= 12
    /\ stack_left + ActiveCost = stack_size_limit
    /\ stack_left = 0

C5_EntryCount ==
    (/\ env = "instance"
     /\ Finished
     /\ run = "trap_depth"
     /\ CallsItself(modidx, call0.f)
     /\ call0.g.sl >= 1) =>
        /\ entered = (call0.g.sl - 1) \div FrameCost(costs, modidx, call0.f)
        /\ stack_left = 0

\* C6: the frame cost a prelude charges is the function's declared locals
\* plus the worst operand depth of its body plus the 4 fixed slots.
C6_FrameCost ==
    obs.kind = "prelude" =>
        obs.a = Modules[modidx].funcs[obs.f].locals
                + OperandDepth(costs, modidx, obs.f) + FixedSlots

\* C7: gas_left() is Exhausted exactly when gas_status is nonzero and
\* Ready(gas_left) otherwise; right after set_gas(g), whatever came before,
\* it is Ready(g).
C7_GasReading ==
    /\ MeterReading(G) = Exhausted <=> gas_status # 0
    /\ gas_status = 0 => MeterReading(G) = Ready(gas_left)
    /\ obs.kind = "set_gas" =>
          /\ gas_left = obs.a
          /\ gas_status = 0
          /\ MeterReading(G) = Ready(obs.a)

C7_Witness ==
    /\ obs.kind = "set_gas" /\ obs.pre.gs # 0 /\ obs.a > 0
    /\ MeterReading(G) = Ready(obs.a)

\* C8 (as amended): when a call ends OutOfStack the caller's gas slot holds 0
\* after stylus_call, and after callUserWasmRustImpl when wasm_gas_price is
\* not 0; with wasm_gas_price = 0 callUserWasmRustImpl leaves the slot as
\* the caller passed it.
C8_Forfeit ==
    (phase = "done" /\ outcome = "OutOfStack") =>
        IF env = "proof" /\ wasm_gas_price = 0
        THEN evm_gas = call0.evm
        ELSE evm_gas = 0

C8_Witness ==
    /\ phase = "done" /\ outcome = "OutOfStack" /\ run = "trap_depth"
    /\ wasm_gas_price # 0 /\ call0.evm > 0 /\ gas_left > 0
    /\ evm_gas = 0

\* C8 (as written): when a call ends OutOfStack the caller's gas slot holds 0,
\* for both entry points and every pricing configuration.
C8_AlwaysZero ==
    (phase = "done" /\ outcome = "OutOfStack") => evm_gas = 0

\* C9: a finished call is OutOfGas if gas_status is nonzero; else OutOfStack
\* if the depth prelude trapped; else, on a normal return, Success for
\* status 0 and Revert otherwise; and Failure for any other trap.
C9_Classification ==
    phase = "done" =>
        outcome = IF gas_status # 0 THEN "OutOfGas"
                  ELSE IF run = "trap_depth" THEN "OutOfStack"
                  ELSE IF run = "returned"
                       THEN (IF call0.ret = 0 THEN "Success" ELSE "Revert")
                  ELSE "Failure"

---------------------------------------------------------------------------
(* The module abstraction (prover/src/programs/mod.rs, trait ModuleMod)    *)
(* and its two implementations.  A module is drawn as the WebAssembly      *)
(* text declares it; ModuleInfo is the compiler's view of it and           *)
(* WasmBinary the one binary.rs parses.  Option<T> is a sequence of at     *)
(* most one element; indices are zero-based as in the source.              *)

STYLUS_START == "stylus_start"

\* HashMap::insert
Insert(map, k, v) == [n \in DOMAIN map \cup {k} |-> IF n = k THEN v ELSE map[n]]

\* the modules the harness instruments: function 1 increments the global
\* `status` (start.wat) and is the start function when one is declared
WasmModules ==
    [ globals  : { << [ty |-> "I32", init |-> [kind |-> "I32Const", x |-> 10]] >> },
      exports  : { << >>,
                   [n \in {"move_me"} |-> [kind |-> "Function", index |-> 1]],
                   [n \in {"move_me", "memory"} |->
                       IF n = "memory" THEN [kind |-> "Memory", index |-> 0]
                       ELSE [kind |-> "Function", index |-> 1]],
                   [n \in {STYLUS_START} |-> [kind |-> "Global", index |-> 0]],
                   [n \in {STYLUS_START} |-> [kind |-> "Function", index |-> 0]] },
      start    : { << >>, << 1 >> },
      names    : { << >> },
      memories : { << >>,
                   << [min |-> 3, max |-> << >>] >>,
                   << [min |-> 10, max |-> << >>] >>,
                   << [min |-> 3, max |-> << 6 >>] >>,
                   << [min |-> 1, max |-> << >>], [min |-> 1, max |-> << >>] >> } ]

\* the value a constant initializer denotes
ValueOf(init) ==
    [ty |-> IF init.kind = "I32Const" THEN "I32" ELSE "I64",
     v  |-> init.x % (IF init.kind = "I32Const" THEN U32Mod ELSE U64Mod)]

\* the compiler's translation of the module: every export is in `exports`
ModuleInfoOf(w) ==
    [ globals             |-> [i \in DOMAIN w.globals |->
                                  [ty |-> w.globals[i].ty, mutability |-> "Var"]],
      global_initializers |-> [i \in DOMAIN w.globals |-> w.globals[i].init],
      exports             |-> w.exports,
      start_function      |-> w.start,
      function_names      |-> w.names,
      memories            |-> [i \in DOMAIN w.memories |->
                                  [minimum |-> w.memories[i].min,
                                   maximum |-> w.memories[i].max]] ]

\* binary::parse: only the function exports are entered in `exports`; every
\* export is entered in `all_exports` under (name, kind)
parse(w) ==
    [ globals     |-> [i \in DOMAIN w.globals |-> ValueOf(w.globals[i].init)],
      exports     |-> [n \in {x \in DOMAIN w.exports : w.exports[x].kind = "Function"} |->
                          w.exports[n]],
      all_exports |-> [p \in {<<x, w.exports[x].kind>> : x \in DOMAIN w.exports} |->
                          w.exports[p[1]].index],
      start       |-> w.start,
      names       |-> w.names,
      memories    |-> [i \in DOMAIN w.memories |->
                          [initial |-> w.memories[i].min,
                           maximum |-> w.memories[i].max]] ]

\* Result<T>: ok, the value returned, and the module as the call leaves it
Returned(ok, v, m) == [ok |-> ok, v |-> v, m |-> m]

\* impl ModuleMod for ModuleInfo
ModuleInfo_add_global(m, name, ty, init) ==
    IF name \in DOMAIN m.exports
    THEN Returned(FALSE, 0, m)
    ELSE LET index == Len(m.globals)
         IN  Returned(TRUE, index,
                 [m EXCEPT !.globals = Append(@, [ty |-> ty, mutability |-> "Var"]),
                           !.exports = Insert(@, name, [kind |-> "Global", index |-> index]),
                           !.global_initializers = Append(@, init)])

ModuleInfo_move_start_function(m, name) ==
    IF name \in DOMAIN m.exports
    THEN Returned(FALSE, 0, m)
    ELSE IF m.start_function # << >>
    THEN LET start == m.start_function[1]
         IN  Returned(TRUE, 0,
                 [m EXCEPT !.start_function = << >>,
                           !.exports = Insert(@, name, [kind |-> "Function", index |-> start]),
                           !.function_names = Insert(@, start, name)])
    ELSE Returned(TRUE, 0, m)

ModuleInfo_limit_heap_keep_max(m, limit) ==
    IF Len(m.memories) > 1
    THEN Returned(FALSE, 0, m)
    ELSE IF Len(m.memories) = 0
    THEN Returned(TRUE, 0, m)
    ELSE LET memory == m.memories[1]
             bound  == IF memory.maximum = << >> THEN limit ELSE memory.maximum[1]
         IN  Returned(~ (memory.minimum > bound), 0,
                      [m EXCEPT !.memories[1].maximum = << bound >>])

ModuleInfo_limit_heap(m, limit) ==
    IF Len(m.memories) > 1
    THEN Returned(FALSE, 0, m)
    ELSE IF Len(m.memories) = 0
    THEN Returned(TRUE, 0, m)
    ELSE LET memory == m.memories[1]
             bound  == Min(IF memory.maximum = << >> THEN limit ELSE memory.maximum[1], limit)
             after  == [m EXCEPT !.memories[1].maximum = << bound >>]
         IN  Returned(~ (memory.minimum > bound), 0, after)

\* impl ModuleMod for WasmBinary
WasmBinary_add_global(m, name, ty, init) ==
    IF init.kind \notin {"I32Const", "I64Const", "F32Const", "F64Const"}
    THEN Returned(FALSE, 0, m)
    ELSE IF name \in DOMAIN m.exports
    THEN Returned(FALSE, 0, m)
    ELSE LET index == Len(m.globals)
         IN  Returned(TRUE, index,
                 [m EXCEPT !.exports = Insert(@, name, [kind |-> "Global", index |-> index]),
                           !.globals = Append(@, ValueOf(init))])

WasmBinary_keep_start(m, name) ==
    IF name \in DOMAIN m.exports
    THEN Returned(FALSE, 0, m)
    ELSE IF m.start # << >>
    THEN Returned(TRUE, 0,
             [m EXCEPT !.exports = Insert(@, name, [kind |-> "Function", index |-> m.start[1]]),
                       !.names = Insert(@, m.start[1], name)])
    ELSE Returned(TRUE, 0, m)

WasmBinary_move_start_function(m, name) ==
    IF name \in DOMAIN m.exports
    THEN Returned(FALSE, 0, m)
    ELSE IF m.start # << >>
    THEN LET start == m.start[1]
         IN  Returned(TRUE, 0,
                 [m EXCEPT !.start = << >>,
                           !.exports = Insert(@, name, [kind |-> "Function", index |-> start]),
                           !.names = Insert(@, start, name)])
    ELSE Returned(TRUE, 0, m)

WasmBinary_limit_heap_to_limit(m, limit) ==
    IF Len(m.memories) > 1
    THEN Returned(FALSE, 0, m)
    ELSE IF Len(m.memories) = 0
    THEN Returned(TRUE, 0, m)
    ELSE Returned(~ (m.memories[1].initial > limit), 0,
                  [m EXCEPT !.memories[1].maximum = << limit >>])

WasmBinary_limit_heap(m, limit) ==
    IF Len(m.memories) > 1
    THEN Returned(FALSE, 0, m)
    ELSE IF Len(m.memories) = 0
    THEN Returned(TRUE, 0, m)
    ELSE LET memory == m.memories[1]
             bound  == Min(IF memory.maximum = << >> THEN limit ELSE memory.maximum[1], limit)
             after  == [m EXCEPT !.memories[1].maximum = << bound >>]
         IN  Returned(~ (memory.initial > bound), 0, after)

---------------------------------------------------------------------------
(* The instrumentation harness: the same call is made on both              *)
(* representations, then the binary is loaded into a machine and its       *)
(* exports are called (test_start).                                        *)

MaxGlobals == 2
MaxCalls == 2

\* one call of the abstraction on both representations
Modify(kind, name, a, ri, rb) ==
    /\ env = "module"
    /\ ~ inst.loaded
    /\ info' = ri.m
    /\ binary' = rb.m
    /\ obs' = Event(kind, name, a,
                    [info |-> info, binary |-> binary,
                     last |-> IF kind = "limit_heap" /\ obs.kind = "limit_heap"
                              THEN [a |-> obs.a, ok |-> obs.post,
                                    info |-> obs.pre.info.memories,
                                    binary |-> obs.pre.binary.memories]
                              ELSE << >>],
                    [info |-> [ok |-> ri.ok, v |-> ri.v],
                     binary |-> [ok |-> rb.ok, v |-> rb.v]],
                    FALSE)
    /\ inst' = [inst EXCEPT !.moved = @ \/ (kind = "move_start_function"
                                            /\ name = STYLUS_START /\ rb.ok)]
    /\ UNCHANGED << checker, hostenv, modidx, costs, stack_left, stack_size_limit, gas_left,
                    gas_status, frames, run, entered, call0, env, phase,
                    wasm_gas_price, evm_gas, outcome >>

AddGlobal(name, g) ==
    /\ Len(info.globals) < MaxGlobals
    /\ Len(binary.globals) < MaxGlobals
    /\ Modify("add_global", name, g,
              ModuleInfo_add_global(info, name, g.ty, g.init),
              WasmBinary_add_global(binary, name, g.ty, g.init))

MoveStartFunction(name) ==
    Modify("move_start_function", name, 0,
           ModuleInfo_move_start_function(info, name),
           WasmBinary_move_start_function(binary, name))

LimitHeap(limit) ==
    Modify("limit_heap", "", limit,
           ModuleInfo_limit_heap(info, limit),
           WasmBinary_limit_heap(binary, limit))

\* Machine::from_binaries: the globals take their initial values and the
\* start function, if the binary still has one, runs
Instantiate ==
    /\ env = "module"
    /\ ~ inst.loaded
    /\ inst' = [inst EXCEPT !.loaded = TRUE,
                            !.status = WrapAdd32(binary.globals[1].v,
                                                 IF binary.start = << 1 >> THEN 1 ELSE 0)]
    /\ obs' = Event("instantiate", "", 0, << >>, << >>, FALSE)
    /\ UNCHANGED << checker, info, binary, hostenv, modidx, costs, stack_left, stack_size_limit,
                    gas_left, gas_status, frames, run, entered, call0, env, phase,
                    wasm_gas_price, evm_gas, outcome >>

\* Machine::call_function("user", name): function 1 increments `status`
CallExport(name) ==
    /\ env = "module"
    /\ inst.loaded
    /\ inst.calls < MaxCalls
    /\ name \in DOMAIN binary.exports
    /\ binary.exports[name].kind = "Function"
    /\ inst' = [inst EXCEPT !.calls = @ + 1,
                            !.incs = @ + (IF binary.exports[name].index = 1 THEN 1 ELSE 0),
                            !.status = WrapAdd32(@, IF binary.exports[name].index = 1
                                                    THEN 1 ELSE 0)]
    /\ obs' = Event("call_export", name, 0, << >>, << >>, FALSE)
    /\ UNCHANGED << checker, info, binary, hostenv, modidx, costs, stack_left, stack_size_limit,
                    gas_left, gas_status, frames, run, entered, call0, env, phase,
                    wasm_gas_price, evm_gas, outcome >>

InitMod ==
    /\ InitWith({"module"}, {"zero"}, {1}, {U32Max})
    /\ \E w \in WasmModules : info = ModuleInfoOf(w) /\ binary = parse(w)
    /\ inst = [loaded |-> FALSE, moved |-> FALSE, status |-> 0, calls |-> 0, incs |-> 0]
    /\ hostenv = << >> /\ checker = << >>

\* the passes add the globals of Meter (an i64 from a u64) and DepthChecker
\* (an i32), move the start function and bound the heap
NextMod ==
    \/ \E name \in {STYLUS_START, "memory", "stylus_gas_left"},
          g \in { [ty |-> "I64", init |-> [kind |-> "I64Const", x |-> 0 - 1]],
                  [ty |-> "I32", init |-> [kind |-> "I32Const", x |-> 0]] } :
            AddGlobal(name, g)
    \/ \E name \in {STYLUS_START, "memory", "stylus_gas_left"} : MoveStartFunction(name)
    \/ \E limit \in {2, 5, 7} : LimitHeap(limit)
    \/ Instantiate
    \/ \E name \in {STYLUS_START, "move_me", "memory"} : CallExport(name)

SpecMod == InitMod /\ [][NextMod]_vars
---------------------------------------------------------------------------
(* Properties of the module abstraction, stated on the last call (obs):    *)
(* obs.pre holds both representations before it, obs.post what each        *)
(* implementation returned, info and binary what it left.                  *)

\* C11: started from representations of the same module, every call of
\* add_global, move_start_function or limit_heap returns the same
\* success/failure on ModuleInfo and on WasmBinary and leaves them in
\* corresponding states: the same globals, the same exports, the same start
\* slot and the same memory maximum.
C11_SameBehaviour ==
    obs.kind \in {"add_global", "move_start_function", "limit_heap"} =>
        /\ obs.post.info.ok = obs.post.binary.ok
        /\ Len(info.globals) = Len(binary.globals)
        /\ \A i \in DOMAIN binary.globals :
               ValueOf(info.global_initializers[i]) = binary.globals[i]
        /\ DOMAIN info.exports =
               DOMAIN binary.exports \cup {p[1] : p \in DOMAIN binary.all_exports}
        /\ \A n \in DOMAIN binary.exports : info.exports[n] = binary.exports[n]
        /\ info.start_function = binary.start
        /\ Len(info.memories) = Len(binary.memories)
        /\ \A i \in DOMAIN binary.memories :
               info.memories[i].maximum = binary.memories[i].maximum

\* C12: add_global(name, ty, init) fails when the module already exports
\* name and then leaves globals and exports as they were; otherwise it
\* appends one global with the given initializer, returns the number of
\* globals there were before, and exports name as Global(that index),
\* leaving every other global and export unchanged -- on ModuleInfo and on
\* WasmBinary alike.
C12_AddGlobal ==
    obs.kind = "add_global" =>
        LET name == obs.f
            pi   == obs.pre.info
            pb   == obs.pre.binary
            ExportedNames(b) == DOMAIN b.exports \cup {p[1] : p \in DOMAIN b.all_exports}
        IN  /\ IF name \in DOMAIN pi.exports
               THEN /\ ~ obs.post.info.ok
                    /\ info.globals = pi.globals
                    /\ info.exports = pi.exports
               ELSE /\ obs.post.info.ok
                    /\ obs.post.info.v = Len(pi.globals)
                    /\ Len(info.globals) = Len(pi.globals) + 1
                    /\ SubSeq(info.globals, 1, Len(pi.globals)) = pi.globals
                    /\ info.global_initializers = Append(pi.global_initializers, obs.a.init)
                    /\ DOMAIN info.exports = DOMAIN pi.exports \cup {name}
                    /\ info.exports[name] = [kind |-> "Global", index |-> obs.post.info.v]
                    /\ \A n \in DOMAIN pi.exports : info.exports[n] = pi.exports[n]
            /\ IF name \in ExportedNames(pb)
               THEN /\ ~ obs.post.binary.ok
                    /\ binary.globals = pb.globals
                    /\ binary.exports = pb.exports
               ELSE /\ obs.post.binary.ok
                    /\ obs.post.binary.v = Len(pb.globals)
                    /\ binary.globals = Append(pb.globals, ValueOf(obs.a.init))
                    /\ DOMAIN binary.exports = DOMAIN pb.exports \cup {name}
                    /\ binary.exports[name] = [kind |-> "Global", index |-> obs.post.binary.v]
                    /\ \A n \in DOMAIN pb.exports : binary.exports[n] = pb.exports[n]

\* C13: move_start_function(name) fails and changes nothing when the module
\* already exports name; otherwise, with a start function s set, it empties
\* the start slot, exports name as Function(s) and registers s under name
\* in the debug names; with no start set it succeeds and changes nothing.
C13_MoveStart ==
    obs.kind = "move_start_function" =>
        LET name == obs.f
            pi   == obs.pre.info
            pb   == obs.pre.binary
            ExportedNames(b) == DOMAIN b.exports \cup {p[1] : p \in DOMAIN b.all_exports}
        IN  /\ IF name \in DOMAIN pi.exports
               THEN ~ obs.post.info.ok /\ info = pi
               ELSE /\ obs.post.info.ok
                    /\ IF pi.start_function = << >>
                       THEN info = pi
                       ELSE /\ info.start_function = << >>
                            /\ info.exports[name] =
                                   [kind |-> "Function", index |-> pi.start_function[1]]
                            /\ info.function_names[pi.start_function[1]] = name
            /\ IF name \in ExportedNames(pb)
               THEN ~ obs.post.binary.ok /\ binary = pb
               ELSE /\ obs.post.binary.ok
                    /\ IF pb.start = << >>
                       THEN binary = pb
                       ELSE /\ binary.start = << >>
                            /\ binary.exports[name] =
                                   [kind |-> "Function", index |-> pb.start[1]]
                            /\ binary.names[pb.start[1]] = name

\* C14: once the StartMover pass has run, the former start function does
\* not run when the module is loaded: `status` reads 10 after loading and
\* grows by exactly one with each explicit invocation of the function,
\* through its own export or through stylus_start, so it reads 12 after two.
C14_StartMoved ==
    (inst.loaded /\ inst.moved) =>
        /\ obs.kind = "instantiate" => inst.status = 10
        /\ inst.status = 10 + inst.incs
        /\ inst.incs = 2 => inst.status = 12

C14_Witness ==
    /\ inst.loaded
    /\ inst.moved
    /\ obs.kind = "call_export"
    /\ obs.f = STYLUS_START
    /\ inst.incs = 2
    /\ inst.status = 12

\* C15: limit_heap(pages) fails on a module with more than one memory; with
\* one memory it sets the maximum to min(existing max or pages, pages) and
\* succeeds exactly when the declared minimum is at most that bound (min 10,
\* no max, limit 5 fails; min 3, no max, limit 5 succeeds with max 5); with
\* no memory it succeeds and changes nothing.
C15_LimitHeap ==
    obs.kind = "limit_heap" =>
        LET pages == obs.a
            pi    == obs.pre.info
            pb    == obs.pre.binary
            Bound(max) == Min(IF max = << >> THEN pages ELSE max[1], pages)
        IN  /\ Len(pi.memories) > 1 => ~ obs.post.info.ok
            /\ Len(pb.memories) > 1 => ~ obs.post.binary.ok
            /\ Len(pi.memories) = 0 => obs.post.info.ok /\ info = pi
            /\ Len(pb.memories) = 0 => obs.post.binary.ok /\ binary = pb
            /\ Len(pi.memories) = 1 =>
                   /\ obs.post.info.ok =
                          (pi.memories[1].minimum <= Bound(pi.memories[1].maximum))
                   /\ obs.post.info.ok =>
                          info.memories[1].maximum = << Bound(pi.memories[1].maximum) >>
            /\ Len(pb.memories) = 1 =>
                   /\ obs.post.binary.ok =
                          (pb.memories[1].initial <= Bound(pb.memories[1].maximum))
                   /\ obs.post.binary.ok =>
                          binary.memories[1].maximum = << Bound(pb.memories[1].maximum) >>
                   /\ (pages = 5 /\ pb.memories[1] = [initial |-> 10, maximum |-> << >>])
                          => ~ obs.post.binary.ok
                   /\ (pages = 5 /\ pb.memories[1] = [initial |-> 3, maximum |-> << >>])
                          => obs.post.binary.ok /\ binary.memories[1].maximum = << 5 >>

C15_Witness ==
    /\ obs.kind = "limit_heap"
    /\ obs.a = 5
    /\ obs.pre.binary.memories = << [initial |-> 3, maximum |-> << >>] >>
    /\ obs.post.binary.ok
    /\ obs.post.info.ok
    /\ binary.memories[1].maximum = << 5 >>

\* C16: two calls of limit_heap in a row, with limits n1 then n2, both
\* succeeding, leave the maximum at min(original max if any, n1, n2) -- a
\* value that does not depend on the order of n1 and n2 -- and a second call
\* with the same limit changes nothing.
C16_LimitTwice ==
    (obs.kind = "limit_heap" /\ obs.pre.last # << >>) =>
        LET n1 == obs.pre.last.a
            n2 == obs.a
            Least(max) == Min(Min(IF max = << >> THEN n1 ELSE max[1], n1), n2)
        IN  /\ (obs.pre.last.ok.info.ok /\ obs.post.info.ok /\ Len(info.memories) = 1) =>
                   /\ info.memories[1].maximum = << Least(obs.pre.last.info[1].maximum) >>
                   /\ n1 = n2 => info = obs.pre.info
            /\ (obs.pre.last.ok.binary.ok /\ obs.post.binary.ok /\ Len(binary.memories) = 1) =>
                   /\ binary.memories[1].maximum = << Least(obs.pre.last.binary[1].maximum) >>
                   /\ n1 = n2 => binary = obs.pre.binary

C16_Witness ==
    /\ obs.kind = "limit_heap"
    /\ obs.pre.last # << >>
    /\ obs.pre.last.a = 7
    /\ obs.a = 5
    /\ obs.pre.last.ok.binary.ok
    /\ obs.post.binary.ok
    /\ obs.pre.last.binary = << [initial |-> 3, maximum |-> << 6 >>] >>
    /\ binary.memories[1].maximum = << 5 >>
---------------------------------------------------------------------------
(* The pricing conversions of PricingParams, applied to a price and to gas *)
(* amounts: wasm gas is converted to evm gas and back, and evm gas is      *)
(* converted to wasm gas.                                                  *)

\* wasm_to_evm on the wasm gas held in gas_left
WasmToEvm ==
    /\ env = "pricing"
    /\ phase = "ready"
    /\ evm_gas' = wasm_to_evm(wasm_gas_price, gas_left)
    /\ phase' = "evm"
    /\ obs' = Event("wasm_to_evm", 0, gas_left, << >>, << >>, FALSE)
    /\ UNCHANGED << checker, info, binary, inst, hostenv, modidx, costs, stack_left,
                    stack_size_limit, gas_left, gas_status, frames, run, entered, call0,
                    env, wasm_gas_price, outcome >>

\* evm_to_wasm on the evm gas held in evm_gas: the caller's, or the one
\* wasm_to_evm has just produced
EvmToWasm ==
    /\ env = "pricing"
    /\ phase \in {"ready", "evm"}
    /\ outcome' = evm_to_wasm(wasm_gas_price, evm_gas)
    /\ phase' = IF phase = "evm" THEN "round_trip" ELSE "wasm"
    /\ obs' = Event("evm_to_wasm", 0, evm_gas, << >>, << >>, FALSE)
    /\ UNCHANGED << checker, info, binary, inst, hostenv, modidx, costs, stack_left,
                    stack_size_limit, gas_left, gas_status, frames, run, entered, call0,
                    env, wasm_gas_price, evm_gas >>

InitPrice ==
    /\ env = "pricing" /\ phase = "ready"
    /\ wasm_gas_price \in {0, 1, 3, 7, 100, 9999, Bips, 2 * Bips, U64Max}
    /\ gas_left \in 0 .. 40 \cup {3333, 3334, Bips, U64Max \div 7, U64Max \div 3, U64Max}
    /\ evm_gas \in {0, 1, 3, U64Max \div Bips, U64Max \div Bips + 1, U64Max}
    /\ outcome = "none"
    /\ costs = "zero" /\ modidx = 1
    /\ stack_size_limit = U32Max /\ stack_left = U32Max /\ gas_status = 0
    /\ frames = << >> /\ run = "idle" /\ entered = 0
    /\ call0 = NoCall /\ obs = NoEvent
    /\ info = << >> /\ binary = << >> /\ inst = << >> /\ checker = << >> /\ hostenv = << >>

NextPrice ==
    \/ WasmToEvm
    \/ EvmToWasm

SpecPrice == InitPrice /\ [][NextPrice]_vars

\* C17: for a price p > 0 and wasm gas w with w * p below 2^64, converting w
\* to evm gas and back never gives more than w, loses less than 10000/p + 1,
\* and gives w back when w * p is a multiple of 10000; evm_to_wasm fails
\* when the price is 0 and otherwise returns the saturating product of the
\* evm gas and 10000, divided by p.
C17_RoundTrip ==
    LET p == wasm_gas_price
        w == gas_left
    IN  /\ (phase = "round_trip" /\ p > 0 /\ (w = 0 \/ p <= U64Max \div w)) =>
               /\ outcome.ok
               /\ outcome.v <= w
               /\ (w - outcome.v) * p < Bips + p
               /\ (w * p) % Bips = 0 => outcome.v = w
        /\ phase \in {"wasm", "round_trip"} =>
               /\ outcome.ok = (p # 0)
               /\ outcome.ok =>
                      \/ obs.a <= U64Max \div Bips /\ outcome.v = (obs.a * Bips) \div p
                      \/ obs.a > U64Max \div Bips /\ outcome.v = U64Max \div p

C17_Witness ==
    /\ phase = "round_trip"
    /\ wasm_gas_price = 3
    /\ gas_left = 3334
    /\ evm_gas = 1
    /\ outcome = [ok |-> TRUE, v |-> 3333]

---------------------------------------------------------------------------
\* C18: an error at an external entry point comes back as a tagged outcome
\* with the error in the output buffer, never as a panic: stylus_call given
\* a configuration of unknown version, or a module that does not
\* deserialize, returns Failure.
C18_TaggedOutcome ==
    env = "native" =>
        /\ outcome # "panic"
        /\ phase # "halted"
        /\ obs.kind = "halt" => outcome = "Failure"
---------------------------------------------------------------------------
(* The host functions of stylus/src/host.rs on the WasmEnv of a running    *)
(* program.  A host function runs its steps in order and stops at the      *)
(* first `?` that fails; Does(e, esc) is the environment it leaves and the *)
(* Escape it returns ("none" when it returns Ok).  The EVM API answers     *)
(* with the dynamic gas cost of each operation.                            *)

MaxHostCalls == 2

Does(e, esc) == [e |-> e, esc |-> esc]

\* WasmEnv::buy_ink: take the ink or report that there is not enough
buy_ink(e, ink) ==
    IF e.ink < ink THEN [ok |-> FALSE, e |-> e]
    ELSE [ok |-> TRUE, e |-> [e EXCEPT !.ink = @ - ink]]

\* WasmEnv::buy_gas
buy_gas(e, gas) == buy_ink(e, gas_to_ink(e.price, gas))

\* WasmEnv::require_gas: the ink must be there, none is taken
require_gas(e, gas) == [ok |-> e.ink >= gas_to_ink(e.price, gas), e |-> e]

\* Every host function begins with WasmEnv::start, which pays
\* pricing.hostio_cost.  The gas constants are those of the EVM:
\* SSTORE_SENTRY_GAS 2300, LOG_TOPIC_GAS 375, LOG_DATA_GAS 8 and
\* COPY_WORD_GAS 3 for each 32-byte word copied.

account_load_bytes32(e0, key, in_bounds, gas_cost) ==
    LET s == buy_ink(e0, e0.hostio_cost)
        w == [s.e EXCEPT !.memory = Append(@, [at |-> "dest", v |-> s.e.storage[key]])]
        b == buy_gas(w, gas_cost)
    IN  IF ~ s.ok THEN Does(s.e, "OutOfGas")
        ELSE IF ~ in_bounds THEN Does(s.e, "Logical")
        ELSE IF ~ b.ok THEN Does(b.e, "OutOfGas")
        ELSE Does(b.e, "none")

\* (the store as it would be without the purchase of its dynamic cost)
account_store_bytes32_no_charge(e0, key, value, in_bounds, gas_cost) ==
    LET s == buy_ink(e0, e0.hostio_cost)
        r == require_gas(s.e, 2300)
    IN  IF ~ s.ok THEN Does(s.e, "OutOfGas")
        ELSE IF ~ r.ok THEN Does(r.e, "OutOfGas")
        ELSE IF ~ in_bounds THEN Does(r.e, "Logical")
        ELSE Does([r.e EXCEPT !.storage[key] = value], "none")

\* the API's setter answers Ok(gas_cost)
account_store_bytes32(e0, key, value, in_bounds, gas_cost) ==
    LET s == buy_ink(e0, e0.hostio_cost)
        r == require_gas(s.e, 2300)
        w == [r.e EXCEPT !.storage[key] = value]
        b == buy_gas(w, gas_cost)
    IN  IF ~ s.ok THEN Does(s.e, "OutOfGas")
        ELSE IF ~ r.ok THEN Does(r.e, "OutOfGas")
        ELSE IF ~ in_bounds THEN Does(r.e, "Logical")
        ELSE IF ~ b.ok THEN Does(b.e, "OutOfGas")
        ELSE Does(b.e, "none")

\* the EVM API answers a call with (outs_len, gas_cost, status); the cost is
\* at most the gas handed over
call_contract(e0, calldata_len, ink, in_bounds, outs_len, spent) ==
    LET s == buy_ink(e0, e0.hostio_cost)
        c == buy_gas(s.e, 3 * ((calldata_len + 31) \div 32))
        gas == ink_to_gas(c.e.price, Min(ink, c.e.ink))
        gas_cost == Min(spent, gas)
        l == [c.e EXCEPT !.return_data_len = outs_len]
        w == [l EXCEPT !.memory = Append(@, [at |-> "return_data_len", v |-> outs_len])]
        b == buy_gas(w, gas_cost)
    IN  IF ~ s.ok THEN Does(s.e, "OutOfGas")
        ELSE IF ~ c.ok THEN Does(c.e, "OutOfGas")
        ELSE IF ~ in_bounds THEN Does(c.e, "Logical")
        ELSE IF ~ b.ok THEN Does(b.e, "OutOfGas")
        ELSE Does(b.e, "none")

emit_log(e0, len, topics, in_bounds) ==
    LET s == buy_ink(e0, e0.hostio_cost)
        t == buy_gas(s.e, (1 + topics) * 375)
        d == buy_gas(t.e, (len - topics * 32) * 8)
    IN  IF ~ s.ok THEN Does(s.e, "OutOfGas")
        ELSE IF len < topics * 32 \/ topics > 4 THEN Does(s.e, "Logical")
        ELSE IF ~ t.ok THEN Does(t.e, "OutOfGas")
        ELSE IF ~ d.ok THEN Does(d.e, "OutOfGas")
        ELSE IF ~ in_bounds THEN Does(d.e, "Logical")
        ELSE Does([d.e EXCEPT !.logs = Append(@, [len |-> len, topics |-> topics])], "none")

\* the program calls a host function; an Escape ends the program
HostCall(name, a, r) ==
    /\ env = "host"
    /\ hostenv.escape = "none"
    /\ Len(hostenv.calls) < MaxHostCalls
    /\ hostenv' = [r.e EXCEPT !.escape = r.esc,
                              !.calls = Append(@, [name |-> name, a |-> a])]
    /\ obs' = Event(name, 0, a, hostenv, r.esc, FALSE)
    /\ UNCHANGED << checker, info, binary, inst, modidx, costs, stack_left, stack_size_limit,
                    gas_left, gas_status, frames, run, entered, call0, env, phase,
                    wasm_gas_price, evm_gas, outcome >>

InitHost ==
    /\ InitWith({"host"}, {"zero"}, {1}, {U32Max})
    /\ info = << >> /\ binary = << >> /\ inst = << >> /\ checker = << >>
    /\ \E ink \in {0, 1, 60, 400}, price \in {Bips, 2 * Bips}, hostio_cost \in {0, 1} :
           hostenv = [ink |-> ink, ink0 |-> ink, price |-> price,
                      hostio_cost |-> hostio_cost,
                      memory |-> << >>, storage |-> [k \in {0} |-> 0], logs |-> << >>,
                      return_data_len |-> 0, escape |-> "none", calls |-> << >>]

NextHost ==
    \/ \E in_bounds \in BOOLEAN, gas_cost \in {0, 21, 100} :
           HostCall("account_load_bytes32", gas_cost,
                    account_load_bytes32(hostenv, 0, in_bounds, gas_cost))
    \/ \E value \in {0, 1}, in_bounds \in BOOLEAN, gas_cost \in {0, 50, 100} :
           HostCall("account_store_bytes32", gas_cost,
                    account_store_bytes32(hostenv, 0, value, in_bounds, gas_cost))
    \/ \E calldata_len \in {0, 33}, ink \in {0, 30, U64Max}, in_bounds \in BOOLEAN,
          outs_len \in {0, 4}, spent \in {0, 20, 100} :
           HostCall("call_contract", spent,
                    call_contract(hostenv, calldata_len, ink, in_bounds, outs_len, spent))
    \/ \E len \in {0, 32, 40}, topics \in {0, 1, 5}, in_bounds \in BOOLEAN :
           HostCall("emit_log", len,
                    emit_log(hostenv, len, topics, in_bounds))

SpecHost == InitHost /\ [][NextHost]_vars

\* C19: a host function has no effect visible outside the call -- a storage
\* write, a log, a write into user memory, a new return-data length --
\* before all the gas of the operation is bought: a host call that ends
\* with the out-of-gas escape has made none of them.
C19_PayFirst ==
    (obs.kind \in {"account_load_bytes32", "account_store_bytes32", "call_contract",
                   "emit_log"}
        /\ obs.post = "OutOfGas") =>
        /\ hostenv.memory = obs.pre.memory
        /\ hostenv.storage = obs.pre.storage
        /\ hostenv.logs = obs.pre.logs
        /\ hostenv.return_data_len = obs.pre.return_data_len

---------------------------------------------------------------------------
(* Further properties of the module abstraction.                           *)

\* C30: when limit_heap fails because the declared memory minimum exceeds
\* the limit, the module is left unchanged: the memory maximum after the
\* failed call equals the maximum before it, on ModuleInfo and on
\* WasmBinary.
C30_FailedLimitHeap ==
    obs.kind = "limit_heap" =>
        /\ (Len(obs.pre.info.memories) = 1 /\ ~ obs.post.info.ok) =>
               info.memories[1].maximum = obs.pre.info.memories[1].maximum
        /\ (Len(obs.pre.binary.memories) = 1 /\ ~ obs.post.binary.ok) =>
               binary.memories[1].maximum = obs.pre.binary.memories[1].maximum
---------------------------------------------------------------------------
(* The host operations on the stack globals.                               *)

\* C26: set_limit(new) sets stack_size_limit to new and keeps the stack in
\* use (limit - stack_left) whenever new is at least the amount in use, and
\* otherwise leaves stack_left at 0; reset sets stack_left to the limit.
\* After a depth trap with limit 32 (stack_left 0), set_limit(48) gives
\* stack_left 16; set_limit(64) on a reset stack gives stack_left 64.
C26_SetLimit ==
    /\ obs.kind = "set_limit" =>
          LET used == obs.f - obs.pre.sl
          IN  /\ stack_size_limit = obs.a
              /\ IF obs.a >= used
                 THEN stack_size_limit - stack_left = used
                 ELSE stack_left = 0
              /\ (obs.f = 32 /\ obs.pre.sl = 0 /\ obs.a = 48) => stack_left = 16
              /\ (obs.pre.sl = obs.f /\ obs.a = 64) => stack_left = 64
    /\ obs.kind = "reset" => stack_left = stack_size_limit
---------------------------------------------------------------------------
(* Further properties of the call entry points.                            *)

\* C28: a call is reported as OutOfStack only if the depth prelude trapped
\* during it: stack_left is never 0 at the end of a call that returned
\* normally or stopped for another reason, whatever max_depth and the frame
\* costs are (stack_left equal to a frame cost at a function entry included).
C28_OnlyIfTrapped ==
    /\ (phase = "done" /\ outcome = "OutOfStack") => run = "trap_depth"
    /\ (phase \in {"called", "done"} /\ run \in Idle \ {"trap_depth"}) => stack_left # 0
---------------------------------------------------------------------------
(* lib_ecrecover (stylus/src/host.rs).  The 32-byte words are read from    *)
(* user memory: v is its 31 high bytes (zero or not) and its last byte, r  *)
(* and s are placed relative to the group order SECP256K1N.  The secp256k1 *)
(* library refuses a recovery id outside 0..3 and a compact signature      *)
(* whose r or s is not below the group order; an error it returns leaves   *)
(* through `?` as a logical escape (section 8: invalid ecrecover           *)
(* parameter).  ECRECOVER_GAS is the 3000 gas of the EVM precompile.  The  *)
(* subtraction on the u8 panics in a build with overflow checks and wraps  *)
(* in one without.                                                         *)

lib_ecrecover(e0, w, in_bounds, recovers, overflow_checks) ==
    LET st == buy_ink(e0, e0.hostio_cost)
        b  == buy_gas(st.e, 3000)
        v  == (w.v31 - 27 + 256) % 256
    IN  IF ~ st.ok THEN Does(st.e, "OutOfGas")
        ELSE IF ~ b.ok THEN Does(b.e, "OutOfGas")
        ELSE IF ~ in_bounds THEN Does(b.e, "Logical")
        ELSE IF w.v_high # 0 THEN Does(b.e, "Logical")
        ELSE IF w.v31 < 27 /\ overflow_checks THEN Does(b.e, "panic")
        ELSE IF v \notin 0 .. 3 THEN Does(b.e, "Logical")
        ELSE IF w.r = "above" THEN Does(b.e, "Logical")
        ELSE IF w.s = "above" THEN Does(b.e, "Logical")
        ELSE IF w.r = "equal" \/ w.s = "equal" THEN Does(b.e, "Logical")
        ELSE IF ~ recovers THEN Does(b.e, "Logical")
        ELSE Does([b.e EXCEPT !.memory = Append(@, [at |-> "result", v |-> 20])], "none")

InitRecover ==
    /\ InitWith({"host"}, {"zero"}, {1}, {U32Max})
    /\ info = << >> /\ binary = << >> /\ inst = << >> /\ checker = << >>
    /\ \E ink \in {0, 3000, 7000}, price \in {Bips, 2 * Bips}, hostio_cost \in {0, 1} :
           hostenv = [ink |-> ink, ink0 |-> ink, price |-> price,
                      hostio_cost |-> hostio_cost,
                      memory |-> << >>, storage |-> [k \in {0} |-> 0], logs |-> << >>,
                      return_data_len |-> 0, escape |-> "none", calls |-> << >>]

NextRecover ==
    \E v_high \in {0, 1}, v31 \in {0, 26, 27, 28, 29, 31, 255},
       r \in {"below", "equal", "above"}, s \in {"below", "equal", "above"},
       in_bounds \in BOOLEAN, recovers \in BOOLEAN, overflow_checks \in BOOLEAN :
        LET w == [v_high |-> v_high, v31 |-> v31, r |-> r, s |-> s]
        IN  HostCall("lib_ecrecover", w,
                     lib_ecrecover(hostenv, w, in_bounds, recovers, overflow_checks))

SpecRecover == InitRecover /\ [][NextRecover]_vars

\* C27: whenever v, read as a 32-byte big-endian integer, is not exactly 27
\* or 28, or r or s is at least the secp256k1 group order, lib_ecrecover
\* returns a logical escape and writes nothing to the result pointer; it
\* does not panic.
C27_InvalidSignature ==
    (/\ obs.kind = "lib_ecrecover"
     /\ obs.post # "OutOfGas"
     /\ \/ obs.a.v_high # 0
        \/ obs.a.v31 \notin {27, 28}
        \/ obs.a.r # "below"
        \/ obs.a.s # "below") =>
        /\ obs.post = "Logical"
        /\ hostenv.memory = obs.pre.memory
---------------------------------------------------------------------------
(* The DepthChecker on one function.  The compiler feeds the body to the   *)
(* rewriter operator by operator (FunctionDepthChecker::feed); the walk    *)
(* worst_case_depth goes through the buffered body in its loop, one        *)
(* operator per iteration.  The callee signatures have different numbers   *)
(* of parameters and results.                                              *)

PassInputs ==
    LET module == [sigs  |-> << Sig(2, 1), Sig(0, 1), Sig(1, 0) >>,
                   funcs |-> << Fn(1, 0, << >>), Fn(2, 0, << >>), Fn(3, 0, << >>) >>]
    IN  { [module |-> module, body |-> b] : b \in {
            << Op("LocalGet", 0), Op("I32Const", 1), O("I32Add"), O("End") >>,
            << Op("I32Const", 1), Op("I32Const", 2), Op("Call", 1), O("Drop"), O("End") >>,
            << Op("Call", 2), O("Drop"), O("End") >>,
            << Op("I32Const", 1), Op("I32Const", 2), Op("I32Const", 0),
               Op("CallIndirect", 1), O("Drop"), O("End") >>,
            << Op("I32Const", 7), Op("CallIndirect", 3), O("End") >>,
            << Op("I32Const", 1), O("Block"), Op("LocalGet", 0), O("If"),
               Op("I32Const", 2), O("Drop"), O("Else"), O("Nop"), O("End"), O("End"),
               O("Drop"), O("End") >>,
            << O("Loop"), Op("LocalGet", 0), Op("BrIf", 0), O("End"), O("End") >>,
            << Op("LocalGet", 0), O("If"), O("Return"), O("End"), O("End") >>,
            << Op("LocalGet", 0), Op("BrTable", 0), O("End") >>,
            << Op("F32Const", 1), Op("F32Const", 2), O("F32Add"), O("Drop"), O("End") >>,
            << Op("F32Const", 1), O("F32Neg"), O("Drop"), O("End") >>,
            << Op("F32Const", 1), O("I32TruncF32S"), O("Drop"), O("End") >>,
            << Op("F32Const", 1), O("I32TruncSatF32S"), O("Drop"), O("End") >>,
            << Op("I64Const", 1), O("I64Extend8S"), O("I32WrapI64"), O("Drop"), O("End") >>,
            << Op("V128Const", 0), O("Drop"), O("End") >>,
            << Op("I32Const", 0), Op("I32Const", 0), Op("I32Const", 0), O("MemoryCopy"),
               O("End") >>,
            << O("Try"), O("End"), O("End") >>,
            << Op("I32Const", 0), O("I32AtomicLoad"), O("Drop"), O("End") >>,
            << Op("I32Const", 0), Op("I32Const", 1), Op("I32Const", 2), O("TypedSelect"),
               O("Drop"), O("End") >> } }

\* the compiler hands the next operator of the body to feed
FeedOp ==
    /\ env = "feed"
    /\ checker.at < Len(checker.body)
    /\ checker.c.res = "ok"
    /\ LET o == checker.body[checker.at + 1]
           c == Feed(checker.c, checker.module, o)
       IN  /\ checker' = [checker EXCEPT !.at = @ + 1, !.c = c]
           /\ obs' = Event("feed", checker.at + 1, o, Len(checker.c.out), c.res, FALSE)
    /\ UNCHANGED << info, binary, inst, hostenv, modidx, costs, stack_left,
                    stack_size_limit, gas_left, gas_status, frames, run, entered, call0,
                    env, phase, wasm_gas_price, evm_gas, outcome >>

\* one iteration of the loop of worst_case_depth
WalkStep ==
    /\ env = "walk"
    /\ checker.at < Len(checker.body)
    /\ checker.w.res = "run"
    /\ LET o == checker.body[checker.at + 1]
           w == WalkOp(checker.w, checker.module, o)
       IN  /\ checker' = [checker EXCEPT !.at = @ + 1, !.w = w]
           /\ obs' = Event("walk", checker.at + 1, o, checker.w, w, FALSE)
    /\ UNCHANGED << info, binary, inst, hostenv, modidx, costs, stack_left,
                    stack_size_limit, gas_left, gas_status, frames, run, entered, call0,
                    env, phase, wasm_gas_price, evm_gas, outcome >>

InitPass ==
    /\ InitWith({"feed", "walk"}, {"zero"}, {1}, {U32Max})
    /\ info = << >> /\ binary = << >> /\ inst = << >> /\ hostenv = << >>
    /\ \E i \in PassInputs :
           checker = [module |-> i.module, body |-> i.body, at |-> 0, c |-> NewChecker,
                      w |-> [worst |-> 0, stack |-> 0, scopes |-> << 0 >>,
                             res |-> "run", msg |-> ""]]

NextPass ==
    \/ FeedOp
    \/ WalkStep

SpecPass == InitPass /\ [][NextPass]_vars

\* C21: for a well-formed function body fed operator by operator to the
\* rewriter, the emitted stream without the inserted instrumentation is the
\* original operator sequence, every operator once and in order, and every
\* emitted operator lies inside the function body: nothing is emitted after
\* the End that closes the function.
C21_BodyPreserved ==
    (env = "feed" /\ checker.c.done) =>
        LET out == checker.c.out
        IN  /\ SelectSeq(out, LAMBDA o : o.by # "depth") = checker.body
            /\ out[Len(out)] = checker.body[Len(checker.body)]

\* C22: in the walk, a Call to a function with p parameters and r results
\* first takes p off the running depth and then adds r, the running maximum
\* being updated after the increase: the net effect on the depth is r - p.
C22_WalkCall ==
    (obs.kind = "walk" /\ obs.a.op = "Call" /\ obs.post.res = "run") =>
        LET sig     == checker.module.sigs[checker.module.funcs[obs.a.arg].sig]
            lowered == SatSub(obs.pre.stack, sig.params)
        IN  /\ obs.post.stack = lowered + sig.results
            /\ obs.post.worst = Max(obs.pre.worst, lowered + sig.results)
            /\ obs.pre.stack >= sig.params =>
                   obs.post.stack - obs.pre.stack = sig.results - sig.params

\* C23: in the walk, a CallIndirect with a signature of p parameters and r
\* results takes 1 off the running depth for the table index, then p, and
\* then adds r: the net effect on the depth is r - p - 1.
C23_WalkCallIndirect ==
    (obs.kind = "walk" /\ obs.a.op = "CallIndirect" /\ obs.post.res = "run") =>
        LET sig     == checker.module.sigs[obs.a.arg]
            lowered == SatSub(SatSub(obs.pre.stack, 1), sig.params)
        IN  /\ obs.post.stack = lowered + sig.results
            /\ obs.pre.stack >= sig.params + 1 =>
                   obs.post.stack - obs.pre.stack = sig.results - sig.params - 1

\* C24: on a well-nested body of Block, Loop, If, Else and End the walk keeps
\* its scope stack balanced: an opener pushes a snapshot of the depth (If
\* after the condition is taken off), Else restores the depth to the
\* snapshot of its If, End pops the snapshot of its opener, the walk never
\* reports malformed scoping, and the End that closes the function pops the
\* function-level entry and leaves the scope stack empty.
C24_ScopesBalanced ==
    obs.kind = "walk" =>
        /\ obs.a.op \in {"Block", "Loop"} =>
               /\ obs.post.res = "run"
               /\ obs.post.scopes = Append(obs.pre.scopes, obs.pre.stack)
        /\ obs.a.op = "If" =>
               /\ obs.post.res = "run"
               /\ obs.post.scopes = Append(obs.pre.scopes, SatSub(obs.pre.stack, 1))
        /\ obs.a.op = "Else" =>
               /\ obs.post.res = "run"
               /\ obs.post.stack = Top(obs.pre.scopes)
               /\ obs.post.scopes = obs.pre.scopes
        /\ obs.a.op = "End" =>
               /\ obs.post.res = "run"
               /\ obs.post.stack = Top(obs.pre.scopes)
               /\ obs.post.scopes = Pop(obs.pre.scopes, 1)
        /\ (obs.f = Len(checker.body) /\ obs.post.res = "run") => obs.post.scopes = << >>

\* C25: the walk gives a stack effect to every supported operator (the MVP
\* with Loop, Return, BrTable, the float operators and the conversions, sign
\* extension and saturating float-to-int) and aborts only for operators of
\* unsupported proposals, with an error that names the extension; it never
\* crashes the process.
C25_EveryOperator ==
    obs.kind = "walk" =>
        /\ obs.post.res # "panic"
        /\ IF obs.a.op \in ExceptionOps \cup ReferenceOps \cup BulkMemoryOps
                           \cup ThreadsOps \cup SimdOps
           THEN obs.post.res = "err" /\ obs.post.msg # ""
           ELSE obs.post.res = "run"
====
